---- MODULE Spec2Model ----
(***************************************************************************)
(* pgmigrate (src/app.go): a command-line migration runner for postgres.   *)
(* The model covers the changelog table (the ledger), the ./scripts        *)
(* directory and the three commands up, down and status.  Every run of    *)
(* the binary is one process; its steps are the database statements it    *)
(* issues, so that a failing statement and a second process can be seen.  *)
(***************************************************************************)
EXTENDS Integers, Sequences, FiniteSets, TLC

\* ---------------------------------------------------------------- bounds
MaxTs == 3          \* timestamps of script files are 1..MaxTs
MaxLimit == 2       \* largest count argument given to up / down
MaxNameLen == 3     \* every file name of up to MaxNameLen characters is parsed
MaxWords == 10      \* and the names 1_a_a..._a.s of up to MaxWords words
MaxLines == 4       \* lines of a script file
MaxFiles == 3       \* files of a listed directory

Timestamps == 1..MaxTs
Runners == {1, 2}   \* processes that may run the binary
Single == {1}       \* the single operator of the sequential specification
\* os.Args[2]: absent, a text strconv.ParseInt rejects, or a number
NoArg == [given |-> FALSE, valid |-> FALSE, value |-> 0]
BadArg == [given |-> TRUE, valid |-> FALSE, value |-> 0]
NumArg(k) == [given |-> TRUE, valid |-> TRUE, value |-> k]
Args == {NoArg, BadArg} \cup {NumArg(k) : k \in -1..MaxLimit}
\* ./pgmigrate.json: read and parsed, absent, or not the JSON of a config
Configs == {"ok", "missing", "malformed"}

VARIABLES
    config,       \* the file ./pgmigrate.json
    scripts,      \* listing of ./scripts as ioutil.ReadDir returns it (timestamps of the file names)
    tableExists,  \* the changelog table has been created
    ledger,       \* rows of the changelog table: timestamp -> number of rows
    pc,           \* per process: position in the command
    cmd,          \* per process: os.Args[1]
    arg,          \* per process: os.Args[2] or NoArg
    n,            \* per process: the parsed limit
    migrations,   \* per process: the loaded, sorted migrations
    idx,          \* per process: position of the range loop (1-based)
    count,        \* per process: the loop's counter
    executed,     \* per process: statements handed to ExecuteSql in this run
    output,       \* per process: lines printed by Status
    fileName,     \* the file name given to ReadMigration
    nameResult,   \* what ReadMigration made of the name
    fileBody,     \* the lines of the file given to ReadMigration
    bodyResult,   \* the two scripts ReadMigration made of the lines
    dirNames,     \* a directory as ioutil.ReadDir lists it, by file name
    dirResult     \* what ReadMigrationsFromFile returns for it

store == <<fileName, nameResult, fileBody, bodyResult, dirNames, dirResult>>
vars == <<store, config, scripts, tableExists, ledger, pc, cmd, arg, n, migrations, idx, count, executed, output>>
db == <<tableExists, ledger>>
run == <<pc, cmd, arg, n, migrations, idx, count, executed, output>>

\* ------------------------------------------------------- pure functions

\* all sequences without repetition over the subsets of S
RECURSIVE Listings(_)
Listings(S) ==
    {<<>>} \cup UNION { { <<x>> \o l : l \in Listings(S \ {x}) } : x \in S }

\* type migration struct (the scripts' text is identified by the timestamp)
migration(ts, applied) == [Timestamp |-> ts, IsApplied |-> applied]

\* Less with the comparison turned round
LessDescending(a, b) == a.Timestamp > b.Timestamp

\* func (ms migrations) Less
Less(a, b) == a.Timestamp < b.Timestamp

\* sort.Sort(ms) on a short slice is insertionSort: each element in turn
\* moves left while it is Less than its left neighbour
RECURSIVE Insert(_, _)
Insert(m, ms) ==
    IF ms = <<>> THEN <<m>>
    ELSE IF Less(m, ms[Len(ms)])
         THEN Append(Insert(m, SubSeq(ms, 1, Len(ms) - 1)), ms[Len(ms)])
         ELSE Append(ms, m)

RECURSIVE Sort(_)
Sort(ms) ==
    IF ms = <<>> THEN <<>>
    ELSE Insert(ms[Len(ms)], Sort(SubSeq(ms, 1, Len(ms) - 1)))

\* SELECT COUNT(*) ... WHERE timestamp = $1; count > 0
IsMigrationApplied(l, ts) == l[ts] > 0

\* SetMigrationStatus that never looks the row up
SetMigrationStatusNever(l, ts) == FALSE

\* SetMigrationStatus: IsApplied stays false unless the row exists
SetMigrationStatus(l, ts) == IF IsMigrationApplied(l, ts) THEN TRUE ELSE FALSE

\* ReadMigration: the timestamp of the file name and its status
ReadMigration(l, ts) == migration(ts, SetMigrationStatus(l, ts))

\* ReadMigrationsFromFile: read every file of the listing, then sort
ReadMigrationsFromFile(dir, l) ==
    Sort([i \in 1..Len(dir) |-> ReadMigration(l, dir[i])])

\* n := 0; if an argument is present n = ParseInt(arg), 0 when it fails
ParseLimit(a) == IF a.given /\ a.valid THEN a.value ELSE 0

\* Up's test without the check of IsApplied
UpAppliesAlways(m, nn, c) == nn = 0 \/ c <= nn

\* Up's test before m.Do()
UpApplies(m, nn, c) == ~m.IsApplied /\ (nn = 0 \/ c <= nn)

\* Down's test with a strict comparison
DownRevertsStrict(m, nn, c) == c < nn /\ m.IsApplied

\* Down's test with the limit one too large
DownRevertsOneMore(m, nn, c) == c <= nn + 1 /\ m.IsApplied

\* Down's test before m.Undo()
DownReverts(m, nn, c) == c <= nn /\ m.IsApplied

\* INSERT INTO changelog (timestamp, description)
InsertRow(l, ts) == [l EXCEPT ![ts] = @ + 1]

\* DELETE with the comparison <= in place of =
DeleteRowsUpTo(l, ts) == [u \in DOMAIN l |-> IF u <= ts THEN 0 ELSE l[u]]

\* DELETE FROM changelog WHERE timestamp = $1
DeleteRows(l, ts) == [l EXCEPT ![ts] = 0]

\* Status' label
Label(m) == IF m.IsApplied THEN "Applied" ELSE "Pending"

stmt(kind, ts, ok) == [kind |-> kind, ts |-> ts, ok |-> ok]

\* ---------------------------------------------------------------- state

\* ------------------------------------------------- files of ./scripts

\* a file name is a sequence of characters
DigitChars == <<"0", "1", "2", "3", "4", "5", "6", "7", "8", "9">>
Digits == {DigitChars[i] : i \in DOMAIN DigitChars}
Letters == {"a", "b", "s"}
NameChars == {"1", "2", "a", "b", "_", "."}

\* the order of the characters in a file name, as bytes
CharOrder == <<".">> \o DigitChars \o <<"_", "a", "b", "s">>
Rank(c) == CHOOSE i \in DOMAIN CharOrder : CharOrder[i] = c

RECURSIVE Runs(_, _, _, _)
\* the maximal runs of characters of Class in name from position i on, left
\* to right; cur is the run being read
Runs(name, i, cur, Class) ==
    IF i > Len(name)
    THEN IF cur = <<>> THEN <<>> ELSE <<cur>>
    ELSE IF name[i] \in Class
         THEN Runs(name, i + 1, Append(cur, name[i]), Class)
         ELSE (IF cur = <<>> THEN <<>> ELSE <<cur>>) \o Runs(name, i + 1, <<>>, Class)

\* regexp.MustCompile("[Class]+").FindAllString(name, k): the first k matches
FindAllString(Class, name, k) ==
    LET all == Runs(name, 1, <<>>, Class)
    IN  IF Len(all) <= k THEN all ELSE SubSeq(all, 1, k)

RECURSIVE ParseInt(_)
\* strconv.ParseInt(ds, 10, 64) of a digit run (runs of the length modelled
\* are far below 2^63)
ParseInt(ds) ==
    IF ds = <<>> THEN 0
    ELSE 10 * ParseInt(SubSeq(ds, 1, Len(ds) - 1)) + (Rank(ds[Len(ds)]) - Rank("0"))

RECURSIVE Join(_, _)
\* strings.Join(ws, sep)
Join(ws, sep) ==
    IF ws = <<>> THEN <<>>
    ELSE IF Len(ws) = 1 THEN ws[1]
    ELSE ws[1] \o sep \o Join(Tail(ws), sep)

\* the number of matches ReadMigration asks for when it reads the description
MaxDescMatches == 10

\* ReadMigration, the part that reads the file name: the timestamp from the
\* first digit run or the panic, then the description from the first
\* MaxDescMatches alphabetic runs without the last of them
ReadName(filename) ==
    LET matches == FindAllString(Digits, filename, 1)
        descMatches == FindAllString(Letters, filename, MaxDescMatches)
    IN  IF Len(matches) = 0 THEN [kind |-> "Invalid migration file name"]
        ELSE IF Len(descMatches) = 0 THEN [kind |-> "slice bounds out of range"]
        ELSE [kind |-> "migration",
              Timestamp |-> ParseInt(matches[1]),
              Description |-> Join(SubSeq(descMatches, 1, Len(descMatches) - 1), <<" ">>)]

\* a line is a sequence of words; the two markers
DoMarker == <<"--", "@DO">>
UndoMarker == <<"--", "@UNDO">>

\* strings.Contains(line, marker)
Contains(line, marker) ==
    \E i \in 1..Len(line) :
        /\ i + Len(marker) - 1 <= Len(line)
        /\ SubSeq(line, i, i + Len(marker) - 1) = marker

\* the mode after a line on which only -- @DO is looked for
DoingDoOnly(line, doing) == IF Contains(line, DoMarker) THEN TRUE ELSE doing

\* the mode of a line: -- @DO sets doing, then -- @UNDO clears it
Doing(line, doing) ==
    LET d == IF Contains(line, DoMarker) THEN TRUE ELSE doing
    IN  IF Contains(line, UndoMarker) THEN FALSE ELSE d

RECURSIVE SplitScripts(_, _, _, _)
\* ReadMigration, the loop over the lines of the file: each line goes, with
\* its newline, to doScript or to undoScript
SplitScripts(lines, doing, doScript, undoScript) ==
    IF lines = <<>> THEN [DoScript |-> doScript, UndoScript |-> undoScript]
    ELSE LET line == Head(lines)
             d == Doing(line, doing)
         IN  IF d THEN SplitScripts(Tail(lines), d, Append(doScript, line), undoScript)
                  ELSE SplitScripts(Tail(lines), d, doScript, Append(undoScript, line))

\* ReadMigration, the part that reads the file: doing starts true
ReadBody(lines) == SplitScripts(lines, TRUE, <<>>, <<>>)

RECURSIVE NameLess(_, _)
\* file names compared as strings
NameLess(a, b) ==
    IF a = <<>> THEN b # <<>>
    ELSE IF b = <<>> THEN FALSE
    ELSE IF a[1] = b[1] THEN NameLess(Tail(a), Tail(b))
    ELSE Rank(a[1]) < Rank(b[1])

RECURSIVE ReadDir(_)
\* ioutil.ReadDir: the files of the directory sorted by file name
ReadDir(S) ==
    IF S = {} THEN <<>>
    ELSE LET f == CHOOSE x \in S : \A y \in S \ {x} : NameLess(x, y)
         IN  <<f>> \o ReadDir(S \ {f})

\* nothing read yet
NoName == [kind |-> "none"]
NoList == [kind |-> "none", list |-> <<>>]
NoBody == [DoScript |-> <<>>, UndoScript |-> <<>>]

\* ReadMigrationsFromFile on a directory, the ledger left aside: every file
\* is read in the order of ReadDir (a panic of ReadMigration ends the
\* process), then the list is sorted
ListMigrations(dir) ==
    IF \E i \in DOMAIN dir : ReadName(dir[i]).kind # "migration"
    THEN [kind |-> "panic", list |-> <<>>]
    ELSE [kind |-> "list",
          list |-> Sort([i \in DOMAIN dir |->
                            [Timestamp |-> ReadName(dir[i]).Timestamp,
                             Description |-> ReadName(dir[i]).Description]])]

Init ==
    /\ config \in Configs
    /\ scripts \in Listings(Timestamps)
    /\ tableExists = FALSE
    /\ ledger = [ts \in Timestamps |-> 0]
    /\ pc = [r \in Runners |-> "idle"]
    /\ cmd = [r \in Runners |-> "none"]
    /\ arg = [r \in Runners |-> NoArg]
    /\ n = [r \in Runners |-> 0]
    /\ migrations = [r \in Runners |-> <<>>]
    /\ idx = [r \in Runners |-> 1]
    /\ count = [r \in Runners |-> 0]
    /\ executed = [r \in Runners |-> <<>>]
    /\ output = [r \in Runners |-> <<>>]
    /\ fileName = <<>>
    /\ nameResult = NoName
    /\ fileBody = <<>>
    /\ bodyResult = NoBody
    /\ dirNames = <<>>
    /\ dirResult = NoList

\* a process can be started when the previous one of this operator has ended
CanStart(r) == pc[r] \in {"idle", "done", "aborted"}

\* MustReadConfig: panics when the file cannot be read; the error that
\* json.Unmarshal returns for a malformed file is not looked at
MustReadConfig(cfg) == IF cfg = "missing" THEN "panic" ELSE "config"

\* what CREATE TABLE can do: with the table present it fails
CreateOutcomes == IF tableExists THEN {FALSE} ELSE BOOLEAN

\* CreateChangeLogTable: CREATE TABLE, its error is dropped
CreateChangeLogTable(created) == tableExists' = (tableExists \/ created)

\* the first GetConfig of a command panics
NoConfig(r, c) ==
    /\ cmd' = [cmd EXCEPT ![r] = c]
    /\ arg' = [arg EXCEPT ![r] = NoArg]
    /\ n' = [n EXCEPT ![r] = 0]
    /\ idx' = [idx EXCEPT ![r] = 1]
    /\ count' = [count EXCEPT ![r] = 0]
    /\ executed' = [executed EXCEPT ![r] = <<>>]
    /\ output' = [output EXCEPT ![r] = <<>>]
    /\ pc' = [pc EXCEPT ![r] = "aborted"]
    /\ migrations' = [migrations EXCEPT ![r] = <<>>]
    /\ UNCHANGED tableExists

\* what Up and Down do before their loop: parse the limit and load the
\* migrations (the count query of IsMigrationApplied panics without the table)
ParseAndLoad(r, c, a) ==
    /\ cmd' = [cmd EXCEPT ![r] = c]
    /\ arg' = [arg EXCEPT ![r] = a]
    /\ n' = [n EXCEPT ![r] = ParseLimit(a)]
    /\ idx' = [idx EXCEPT ![r] = 1]
    /\ count' = [count EXCEPT ![r] = 0]
    /\ executed' = [executed EXCEPT ![r] = <<>>]
    /\ output' = [output EXCEPT ![r] = <<>>]
    /\ IF scripts # <<>> /\ ~tableExists'
       THEN /\ pc' = [pc EXCEPT ![r] = "aborted"]
            /\ migrations' = [migrations EXCEPT ![r] = <<>>]
       ELSE /\ pc' = [pc EXCEPT ![r] = "loop"]
            /\ migrations' = [migrations EXCEPT ![r] = ReadMigrationsFromFile(scripts, ledger)]

\* Up, to the loop: CreateChangeLogTable (which reads the configuration),
\* the limit, ReadMigrationsFromFile
Up(r) ==
    /\ CanStart(r)
    /\ IF MustReadConfig(config) = "panic"
       THEN NoConfig(r, "up")
       ELSE \E a \in Args, created \in CreateOutcomes :
               /\ CreateChangeLogTable(created)
               /\ ParseAndLoad(r, "up", a)
    /\ UNCHANGED <<store, config, scripts, ledger>>

\* Down, to the loop: CreateChangeLogTable (which reads the configuration),
\* the limit, ReadMigrationsFromFile; the loop walks the list as sorted,
\* in ascending order
Down(r) ==
    /\ CanStart(r)
    /\ IF MustReadConfig(config) = "panic"
       THEN NoConfig(r, "down")
       ELSE \E a \in Args, created \in CreateOutcomes :
               /\ CreateChangeLogTable(created)
               /\ ParseAndLoad(r, "down", a)
    /\ UNCHANGED <<store, config, scripts, ledger>>

InLoop(r, c) == cmd[r] = c /\ pc[r] = "loop" /\ idx[r] <= Len(migrations[r])

\* the current element of the range loop
Cur(r) == migrations[r][idx[r]]

\* an iteration of Up's loop that does not call m.Do()
UpSkip(r) ==
    /\ InLoop(r, "up")
    /\ ~UpApplies(Cur(r), n[r], count[r])
    /\ idx' = [idx EXCEPT ![r] = @ + 1]
    /\ UNCHANGED <<store, config, scripts, db, pc, cmd, arg, n, migrations, count, executed, output>>

\* ExecuteSql that logs the error and returns to the caller
DoExecuteSqlGoesOn(r) ==
    /\ cmd[r] = "up" /\ pc[r] = "loop" /\ idx[r] <= Len(migrations[r])
    /\ ~migrations[r][idx[r]].IsApplied /\ (n[r] = 0 \/ count[r] <= n[r])
    /\ \E ok \in BOOLEAN :
        executed' = [executed EXCEPT ![r] =
                        Append(@, [kind |-> "do", ts |-> migrations[r][idx[r]].Timestamp, ok |-> ok])]
    /\ pc' = [pc EXCEPT ![r] = "insert"]
    /\ UNCHANGED <<store, config, scripts, tableExists, ledger, cmd, arg, n, migrations, idx, count, output>>

\* m.Do(), first half: ExecuteSql(m.DoScript); log.Fatalln on error
DoExecuteSql(r) ==
    /\ InLoop(r, "up")
    /\ UpApplies(Cur(r), n[r], count[r])
    /\ \E ok \in BOOLEAN :
        /\ executed' = [executed EXCEPT ![r] = Append(@, stmt("do", Cur(r).Timestamp, ok))]
        /\ pc' = [pc EXCEPT ![r] = IF ok THEN "insert" ELSE "aborted"]
    /\ UNCHANGED <<store, config, scripts, db, cmd, arg, n, migrations, idx, count, output>>

\* m.Do(), second half: the INSERT; panic on error; then count++ when n # 0
DoInsert(r) ==
    /\ cmd[r] = "up" /\ pc[r] = "insert"
    /\ \E ok \in BOOLEAN :
        IF ok
        THEN /\ ledger' = InsertRow(ledger, Cur(r).Timestamp)
             /\ count' = [count EXCEPT ![r] = IF n[r] = 0 THEN @ ELSE @ + 1]
             /\ idx' = [idx EXCEPT ![r] = @ + 1]
             /\ pc' = [pc EXCEPT ![r] = "loop"]
        ELSE /\ pc' = [pc EXCEPT ![r] = "aborted"]
             /\ UNCHANGED <<ledger, count, idx>>
    /\ UNCHANGED <<store, config, scripts, tableExists, cmd, arg, n, migrations, executed, output>>

\* an iteration of Down's loop that does not call m.Undo()
DownSkip(r) ==
    /\ InLoop(r, "down")
    /\ ~DownReverts(Cur(r), n[r], count[r])
    /\ idx' = [idx EXCEPT ![r] = @ + 1]
    /\ UNCHANGED <<store, config, scripts, db, pc, cmd, arg, n, migrations, count, executed, output>>

\* ExecuteSql of the undo-script that logs the error and returns
UndoExecuteSqlGoesOn(r) ==
    /\ cmd[r] = "down" /\ pc[r] = "loop" /\ idx[r] <= Len(migrations[r])
    /\ count[r] <= n[r] /\ migrations[r][idx[r]].IsApplied
    /\ \E ok \in BOOLEAN :
        executed' = [executed EXCEPT ![r] =
                        Append(@, [kind |-> "undo", ts |-> migrations[r][idx[r]].Timestamp, ok |-> ok])]
    /\ pc' = [pc EXCEPT ![r] = "delete"]
    /\ UNCHANGED <<store, config, scripts, tableExists, ledger, cmd, arg, n, migrations, idx, count, output>>

\* m.Undo(), first half: ExecuteSql(m.UndoScript); log.Fatalln on error
UndoExecuteSql(r) ==
    /\ InLoop(r, "down")
    /\ DownReverts(Cur(r), n[r], count[r])
    /\ \E ok \in BOOLEAN :
        /\ executed' = [executed EXCEPT ![r] = Append(@, stmt("undo", Cur(r).Timestamp, ok))]
        /\ pc' = [pc EXCEPT ![r] = IF ok THEN "delete" ELSE "aborted"]
    /\ UNCHANGED <<store, config, scripts, db, cmd, arg, n, migrations, idx, count, output>>

\* m.Undo(), second half: the DELETE; panic on error; then count++
UndoDelete(r) ==
    /\ cmd[r] = "down" /\ pc[r] = "delete"
    /\ \E ok \in BOOLEAN :
        IF ok
        THEN /\ ledger' = DeleteRows(ledger, Cur(r).Timestamp)
             /\ count' = [count EXCEPT ![r] = @ + 1]
             /\ idx' = [idx EXCEPT ![r] = @ + 1]
             /\ pc' = [pc EXCEPT ![r] = "loop"]
        ELSE /\ pc' = [pc EXCEPT ![r] = "aborted"]
             /\ UNCHANGED <<ledger, count, idx>>
    /\ UNCHANGED <<store, config, scripts, tableExists, cmd, arg, n, migrations, executed, output>>

\* the range loop of Up or Down is exhausted and the command returns
Return(r) ==
    /\ cmd[r] \in {"up", "down"}
    /\ pc[r] = "loop"
    /\ idx[r] > Len(migrations[r])
    /\ pc' = [pc EXCEPT ![r] = "done"]
    /\ UNCHANGED <<store, config, scripts, db, cmd, arg, n, migrations, idx, count, executed, output>>

\* Status: load the migrations (no CREATE TABLE) and print one line each;
\* the configuration is read by the first IsMigrationApplied
Status(r) ==
    /\ CanStart(r)
    /\ IF scripts # <<>> /\ MustReadConfig(config) = "panic"
       THEN NoConfig(r, "status")
       ELSE /\ cmd' = [cmd EXCEPT ![r] = "status"]
            /\ arg' = [arg EXCEPT ![r] = NoArg]
            /\ n' = [n EXCEPT ![r] = 0]
            /\ idx' = [idx EXCEPT ![r] = 1]
            /\ count' = [count EXCEPT ![r] = 0]
            /\ executed' = [executed EXCEPT ![r] = <<>>]
            /\ IF scripts # <<>> /\ ~tableExists
               THEN /\ pc' = [pc EXCEPT ![r] = "aborted"]
                    /\ migrations' = [migrations EXCEPT ![r] = <<>>]
                    /\ output' = [output EXCEPT ![r] = <<>>]
               ELSE /\ pc' = [pc EXCEPT ![r] = "done"]
                    /\ migrations' = [migrations EXCEPT ![r] = ReadMigrationsFromFile(scripts, ledger)]
                    /\ output' = [output EXCEPT ![r] =
                            [i \in 1..Len(migrations'[r]) |->
                                [Timestamp |-> migrations'[r][i].Timestamp,
                                 status |-> Label(migrations'[r][i])]]]
            /\ UNCHANGED tableExists
    /\ UNCHANGED <<store, config, scripts, ledger>>

Step(r) ==
    \/ Up(r)
    \/ UpSkip(r)
    \/ DoExecuteSql(r)
    \/ DoInsert(r)
    \/ Down(r)
    \/ DownSkip(r)
    \/ UndoExecuteSql(r)
    \/ UndoDelete(r)
    \/ Return(r)
    \/ Status(r)

Next == \E r \in Single : Step(r)

Spec == Init /\ [][Next]_vars

TypeOK ==
    /\ config \in Configs
    /\ scripts \in Listings(Timestamps)
    /\ tableExists \in BOOLEAN
    /\ ledger \in [Timestamps -> Nat]
    /\ pc \in [Runners -> {"idle", "loop", "insert", "delete", "done", "aborted"}]
    /\ cmd \in [Runners -> {"none", "up", "down", "status"}]
    /\ \A r \in Runners : arg[r] \in Args /\ n[r] \in -1..MaxLimit
    /\ \A r \in Runners : idx[r] \in 1..(MaxTs + 1) /\ count[r] \in 0..MaxTs

\* the steps of a started command; the process runs them without waiting
RunStep(r) ==
    \/ UpSkip(r)
    \/ DoExecuteSql(r)
    \/ DoInsert(r)
    \/ DownSkip(r)
    \/ UndoExecuteSql(r)
    \/ UndoDelete(r)
    \/ Return(r)

\* a started command keeps running: it is sequential code that never blocks
FairSpec == Spec /\ \A r \in Single : WF_vars(RunStep(r))

\* two processes, each started once with the command up, against the same
\* database and script directory; the scheduler interleaves their steps
UpRun(r) ==
    \/ (pc[r] = "idle" /\ Up(r))
    \/ UpSkip(r)
    \/ DoExecuteSql(r)
    \/ DoInsert(r)
    \/ Return(r)

RaceNext == \E r \in Runners : UpRun(r)

\* both processes find a configuration they can connect with
RaceInit == Init /\ config = "ok"

RaceSpec == RaceInit /\ [][RaceNext]_vars

\* ------------------------------------- reading the files of ./scripts

\* the file names read: every name of up to MaxNameLen characters, and the
\* names 1_a.s, 1_a_a.s, ... of up to MaxWords words before the extension
RECURSIVE Words(_)
Words(k) == IF k = 0 THEN <<>> ELSE <<"_", "a">> \o Words(k - 1)

FileNames ==
    UNION {[1..k -> NameChars] : k \in 1..MaxNameLen}
        \cup {<<"1">> \o Words(k) \o <<".", "s">> : k \in 1..MaxWords}

\* the lines a script file is made of
LinePool ==
    {<<"--", "@DO", "sql", "script", "--">>,
     <<"--", "@UNDO", "sql", "script", "--">>,
     <<"CREATE", "TABLE", "t">>,
     <<"DROP", "TABLE", "t">>,
     <<>>,
     <<"--", "@UNDO", "--", "@DO">>}

\* the files read, as strings.Split(file, "\n") gives them: one line or more
FileBodies == UNION {[1..k -> LinePool] : k \in 1..MaxLines}

\* the file names of the directories listed: a timestamp of one or two
\* digits and an extension, and one name without a digit
NamePool ==
    {d \o <<c>> : d \in [1..1 -> {"1", "2"}] \cup [1..2 -> {"1", "2"}], c \in {"a", "b"}}
        \cup {<<"a">>}

ScriptDirs == {ReadDir(S) : S \in {T \in SUBSET NamePool : Cardinality(T) <= MaxFiles}}

\* nothing has been read in this behaviour
Fresh == fileName = <<>> /\ fileBody = <<>> /\ dirResult = NoList

\* ReadMigration(filename), what it makes of the file name
ReadMigrationName ==
    /\ Fresh
    /\ \E f \in FileNames :
          /\ fileName' = f
          /\ nameResult' = ReadName(f)
    /\ fileBody' = <<>> /\ bodyResult' = NoBody
    /\ dirNames' = <<>> /\ dirResult' = NoList
    /\ UNCHANGED <<config, scripts, db, run>>

\* ReadMigration(filename), what it makes of the lines of the file
ReadMigrationBody ==
    /\ Fresh
    /\ \E b \in FileBodies :
          /\ fileBody' = b
          /\ bodyResult' = ReadBody(b)
    /\ fileName' = <<>> /\ nameResult' = NoName
    /\ dirNames' = <<>> /\ dirResult' = NoList
    /\ UNCHANGED <<config, scripts, db, run>>

\* ReadMigrationsFromFile() on a directory, and again on the same directory
ListScripts ==
    /\ fileName = <<>> /\ fileBody = <<>>
    /\ \E d \in IF dirResult = NoList THEN ScriptDirs ELSE {dirNames} :
          /\ dirNames' = d
          /\ dirResult' = ListMigrations(d)
    /\ fileName' = <<>> /\ nameResult' = NoName
    /\ fileBody' = <<>> /\ bodyResult' = NoBody
    /\ UNCHANGED <<config, scripts, db, run>>

StoreInit == Init /\ config = "ok" /\ scripts = <<>>

StoreNext == ReadMigrationName \/ ReadMigrationBody \/ ListScripts

StoreSpec == StoreInit /\ [][StoreNext]_vars

\* ------------------------------------------------------------ properties

Range(f) == {f[i] : i \in DOMAIN f}
ScriptTs == Range(scripts)

\* the migrations of the run, by status when the run loaded them
LoadedTs(r) == {migrations[r][i].Timestamp : i \in DOMAIN migrations[r]}
AppliedAtLoad(r) == {migrations[r][i].Timestamp : i \in {j \in DOMAIN migrations[r] : migrations[r][j].IsApplied}}
PendingAtLoad(r) == LoadedTs(r) \ AppliedAtLoad(r)

\* what the run has changed in the ledger so far
AppliedByRun(r) == {ts \in PendingAtLoad(r) : ledger[ts] > 0}
RevertedByRun(r) == {ts \in AppliedAtLoad(r) : ledger[ts] = 0}

\* the k smallest / largest elements of a set of timestamps
Lowest(S, k) == {x \in S : Cardinality({y \in S : y < x}) < k}
Highest(S, k) == {x \in S : Cardinality({y \in S : y > x}) < k}

\* the i-th smallest element of S
Nth(S, i) == CHOOSE x \in S : Cardinality({y \in S : y < x}) = i - 1

\* the timestamps of the statements of a run, in the order of execution
ExecutedTs(r) == [i \in DOMAIN executed[r] |-> executed[r][i].ts]

\* an up run with limit 0 that found the ledger empty and has not failed
UpAllFromEmpty(r) ==
    /\ cmd[r] = "up" /\ n[r] = 0
    /\ pc[r] \in {"loop", "insert", "done"}
    /\ AppliedAtLoad(r) = {}

\* C1: up with limit 0 (or no count) on an empty ledger executes the
\* do-scripts of all N pending migrations in ascending timestamp order and
\* terminates with the ledger holding exactly those N timestamps, once each.
C1_UpAllAscending ==
    /\ [](\A r \in Single : UpAllFromEmpty(r) =>
            /\ Len(executed[r]) <= Cardinality(ScriptTs)
            /\ \A i \in DOMAIN executed[r] :
                   executed[r][i] = stmt("do", Nth(ScriptTs, i), TRUE)
            /\ pc[r] = "done" =>
                   /\ Len(executed[r]) = Cardinality(ScriptTs)
                   /\ \A ts \in Timestamps :
                          ledger[ts] = IF ts \in ScriptTs THEN 1 ELSE 0)
    /\ \A r \in Single :
          (cmd[r] = "up" /\ pc[r] \in {"loop", "insert"}) ~> (pc[r] \in {"done", "aborted"})

\* C1 witness: up without a count has completed on three scripts, listed
\* out of timestamp order, none of which was applied before
C1_Witness ==
    /\ cmd[1] = "up" /\ arg[1] = NoArg /\ pc[1] = "done"
    /\ scripts = <<3, 1, 2>>
    /\ AppliedAtLoad(1) = {}
    /\ ExecutedTs(1) = <<1, 2, 3>>

\* C2 (as claimed): up with limit n > 0 applies at most n migrations in one
\* run, and with at least n pending it applies exactly the n pending
\* migrations with the lowest timestamps.
C2_UpAtMostLimit ==
    \A r \in Single : (cmd[r] = "up" /\ n[r] > 0) =>
        /\ Cardinality(AppliedByRun(r)) <= n[r]
        /\ (pc[r] = "done" /\ Cardinality(PendingAtLoad(r)) >= n[r]) =>
               AppliedByRun(r) = Lowest(PendingAtLoad(r), n[r])

\* C3 (as claimed): down with limit n >= 1 and at least n applied migrations
\* reverts exactly n, the n applied ones with the highest timestamps, in
\* descending order.
C3_DownRevertsHighest ==
    \A r \in Single :
        (cmd[r] = "down" /\ n[r] >= 1 /\ Cardinality(AppliedAtLoad(r)) >= n[r]) =>
            /\ Cardinality(RevertedByRun(r)) <= n[r]
            /\ \A i, j \in DOMAIN executed[r] :
                   i < j => executed[r][i].ts > executed[r][j].ts
            /\ pc[r] = "done" =>
                   RevertedByRun(r) = Highest(AppliedAtLoad(r), n[r])

\* C4: down without a count argument reverts exactly one applied migration
\* when at least one is applied: the run removes exactly one ledger entry.
C4_DownDefaultRevertsOne ==
    \A r \in Single :
        (cmd[r] = "down" /\ arg[r] = NoArg /\ AppliedAtLoad(r) # {}) =>
            /\ Cardinality(RevertedByRun(r)) <= 1
            /\ Len(executed[r]) <= 1
            /\ pc[r] = "done" =>
                   /\ Cardinality(RevertedByRun(r)) = 1
                   /\ \E ts \in AppliedAtLoad(r) :
                          /\ executed[r] = <<stmt("undo", ts, TRUE)>>
                          /\ RevertedByRun(r) = {ts}

\* C4 witness: down without a count has completed with two migrations
\* applied before it, and one of them is left
C4_Witness ==
    /\ cmd[1] = "down" /\ arg[1] = NoArg /\ pc[1] = "done"
    /\ Cardinality(AppliedAtLoad(1)) = 2
    /\ Cardinality(RevertedByRun(1)) = 1

C6_RoundTrip ==
    \A ts \in Timestamps :
        ~IsMigrationApplied(ledger, ts) =>
            /\ IsMigrationApplied(InsertRow(ledger, ts), ts)
            /\ ~IsMigrationApplied(DeleteRows(InsertRow(ledger, ts), ts), ts)
            /\ \A u \in Timestamps :
                   DeleteRows(InsertRow(ledger, ts), ts)[u] = ledger[u]

\* C6 witness: a down run has reverted migration 1, which an up run had
\* applied, while the entry of migration 2 is in the ledger
C6_Witness ==
    /\ cmd[1] = "down" /\ pc[1] = "done"
    /\ 1 \in RevertedByRun(1)
    /\ stmt("undo", 1, TRUE) \in Range(executed[1])
    /\ IsMigrationApplied(ledger, 2)

\* C7: during up the ledger entry of a migration is written only after its
\* do-script has executed successfully; a failing do-script aborts the run,
\* leaves no entry for that migration and is the last statement of the run.
C7_RecordAfterDo ==
    \A r \in Single : cmd[r] = "up" =>
        /\ \A ts \in AppliedByRun(r) : stmt("do", ts, TRUE) \in Range(executed[r])
        /\ \A i \in DOMAIN executed[r] :
               ~executed[r][i].ok =>
                   /\ i = Len(executed[r])
                   /\ pc[r] = "aborted"
                   /\ ledger[executed[r][i].ts] = 0

\* C7 witness: an up run was aborted by the failing do-script of migration 2
\* after migration 1 was applied, with migration 3 still pending
C7_Witness ==
    /\ cmd[1] = "up" /\ pc[1] = "aborted"
    /\ executed[1] = <<stmt("do", 1, TRUE), stmt("do", 2, FALSE)>>
    /\ AppliedByRun(1) = {1}
    /\ 3 \in PendingAtLoad(1)

\* C8: with a single runner the ledger never holds two entries with the same
\* timestamp, holds entries only for script files, and a migration is
\* reported applied exactly when an entry with its timestamp exists.
C8_OneEntryPerApplied ==
    /\ \A ts \in Timestamps :
          /\ ledger[ts] \in {0, 1}
          /\ ledger[ts] = 1 => ts \in ScriptTs
          /\ IsMigrationApplied(ledger, ts) <=> ledger[ts] = 1
    /\ \A r \in Single :
          (cmd[r] = "status" /\ pc[r] = "done") =>
              \A i \in DOMAIN output[r] :
                  output[r][i].status = "Applied" <=> ledger[output[r][i].Timestamp] = 1

\* C8 witness: an up run has completed that skipped an applied migration
\* and applied another one
C8_Witness ==
    /\ cmd[1] = "up" /\ pc[1] = "done"
    /\ AppliedAtLoad(1) # {}
    /\ AppliedByRun(1) # {}
    /\ \A ts \in ScriptTs : ledger[ts] = 1

\* C9: up never executes the do-script of a migration whose ledger entry
\* existed when the run loaded its status; an up run that finds every
\* migration applied executes no script and leaves the ledger as it was.
C9_UpSkipsApplied ==
    \A r \in Single : cmd[r] = "up" =>
        /\ \A i \in DOMAIN executed[r] : executed[r][i].ts \notin AppliedAtLoad(r)
        /\ pc[r] = "insert" => ledger[Cur(r).Timestamp] = 0
        /\ (pc[r] \in {"loop", "done"} /\ PendingAtLoad(r) = {}) =>
               /\ executed[r] = <<>>
               /\ \A ts \in Timestamps : ledger[ts] = IF ts \in ScriptTs THEN 1 ELSE 0

\* C9 witness: up with limit 0 has completed on three applied migrations
\* without executing anything
C9_Witness ==
    /\ cmd[1] = "up" /\ n[1] = 0 /\ pc[1] = "done"
    /\ AppliedAtLoad(1) = {1, 2, 3}
    /\ executed[1] = <<>>

\* C10 (as claimed): status ensures the ledger table exists, then reports
\* every discovered migration once, ascending, "Applied" exactly when the
\* ledger has its entry, and executes no script and changes no entry.
C10_StatusReport ==
    \A r \in Single : cmd[r] = "status" =>
        /\ tableExists
        /\ pc[r] = "done"
        /\ executed[r] = <<>>
        /\ Len(output[r]) = Cardinality(ScriptTs)
        /\ \A i \in DOMAIN output[r] :
               /\ output[r][i].Timestamp = Nth(ScriptTs, i)
               /\ output[r][i].status =
                      (IF ledger[output[r][i].Timestamp] > 0 THEN "Applied" ELSE "Pending")

\* C11 (as claimed): every error of an up, down or status run is fatal and
\* ends the run before any further script or ledger write: a malformed
\* configuration file, a CREATE TABLE that fails for another reason than
\* "already exists" (the table is still absent), a failing script.
C11_FailFast ==
    \A r \in Single :
        /\ (config = "malformed" /\ (cmd[r] \in {"up", "down"} \/ (cmd[r] = "status" /\ scripts # <<>>))) =>
               (pc[r] = "aborted" /\ executed[r] = <<>>)
        /\ (cmd[r] \in {"up", "down"} /\ ~tableExists) => pc[r] = "aborted"
        /\ \A i \in DOMAIN executed[r] :
               ~executed[r][i].ok => (i = Len(executed[r]) /\ pc[r] = "aborted")

\* the up runs that read ts as pending and have executed its do-script
DidRuns(ts) ==
    {r \in Runners : /\ cmd[r] = "up"
                     /\ ts \in PendingAtLoad(r)
                     /\ stmt("do", ts, TRUE) \in Range(executed[r])}

\* C12: two simultaneous up runs are not coordinated: both can read a
\* migration as pending, both execute its do-script and both write a ledger
\* entry, which leaves two entries with one timestamp.  Every ledger entry
\* is written by a run that read the migration as pending and executed its
\* do-script, at most one entry per such run, and a finished run with limit
\* 0 has done so for every migration it read as pending, whatever the other
\* run wrote in the meantime.
C12_UncoordinatedUp ==
    /\ \A ts \in Timestamps : ledger[ts] <= Cardinality(DidRuns(ts))
    /\ \A r \in Runners :
           (pc[r] = "done" /\ cmd[r] = "up" /\ n[r] = 0) =>
               \A ts \in PendingAtLoad(r) : r \in DidRuns(ts)
    /\ \A r \in Runners : pc[r] = "insert" => Cur(r).Timestamp \in PendingAtLoad(r)

\* both runs have read migration 1 as pending, executed its do-script and
\* written their entry
C12_Witness ==
    /\ DidRuns(1) = Runners
    /\ ledger[1] = 2
    /\ pc[1] = "done" /\ pc[2] = "done"

\* the timestamps of the files of the listed directory, in ReadDir order
DirTimestamps == [i \in DOMAIN dirNames |-> ReadName(dirNames[i]).Timestamp]
ListTimestamps == [i \in DOMAIN dirResult.list |-> dirResult.list[i].Timestamp]
Occurrences(f, x) == Cardinality({i \in DOMAIN f : f[i] = x})

\* C13 as stated: for every script directory the list returned is sorted
\* strictly ascending by timestamp, each element's timestamp less than the
\* next one's.
C13_StrictlyAscending ==
    dirResult.kind = "list" =>
        \A i \in 1..(Len(dirResult.list) - 1) :
            dirResult.list[i].Timestamp < dirResult.list[i + 1].Timestamp

\* C13, amended: for every script directory whose file names all hold a
\* timestamp, the list returned holds one migration per file and is sorted
\* ascending by timestamp: each element's timestamp is at most the next
\* one's, and less than it when no two files share a timestamp; listing the
\* unchanged directory again returns the same sequence.
C13_Ascending ==
    /\ [](dirResult.kind = "list" =>
            /\ \A i \in 1..(Len(ListTimestamps) - 1) :
                   ListTimestamps[i] <= ListTimestamps[i + 1]
            /\ Len(ListTimestamps) = Len(DirTimestamps)
            /\ \A i \in DOMAIN DirTimestamps :
                   Occurrences(ListTimestamps, DirTimestamps[i])
                       = Occurrences(DirTimestamps, DirTimestamps[i])
            /\ (\A i, j \in DOMAIN DirTimestamps :
                    i # j => DirTimestamps[i] # DirTimestamps[j]) =>
                   \A i \in 1..(Len(ListTimestamps) - 1) :
                       ListTimestamps[i] < ListTimestamps[i + 1])
    /\ [][(dirResult # NoList /\ dirNames' = dirNames) => dirResult' = dirResult]_vars

\* three files, read in file-name order with the highest timestamp first,
\* two of them with one timestamp: the list is sorted and not strictly
C13_Witness ==
    /\ dirResult.kind = "list"
    /\ Len(dirNames) = 3
    /\ DirTimestamps[1] > DirTimestamps[2]
    /\ ListTimestamps[1] = ListTimestamps[2]
    /\ ListTimestamps[2] < ListTimestamps[3]

\* C14: for every file name the timestamp is the value of the first digit
\* run and the description is all alphabetic runs except the last one (the
\* extension), joined by single spaces; a file name with no digit run fails
\* with the invalid-file-name error and yields no migration.
C14_FilenameParsing ==
    fileName # <<>> =>
        LET digitRuns == Runs(fileName, 1, <<>>, Digits)
            words == Runs(fileName, 1, <<>>, Letters)
        IN  IF digitRuns = <<>>
            THEN nameResult.kind = "Invalid migration file name"
            ELSE nameResult =
                    [kind |-> "migration",
                     Timestamp |-> ParseInt(digitRuns[1]),
                     Description |-> Join(SubSeq(words, 1, Len(words) - 1), <<" ">>)]

\* the last marker on a line, by position on the line
LastMarkerOnLine(line) ==
    LET at(marker) == {i \in 1..Len(line) :
                          /\ i + Len(marker) - 1 <= Len(line)
                          /\ SubSeq(line, i, i + Len(marker) - 1) = marker}
        dos == at(DoMarker)
        undos == at(UndoMarker)
    IN  IF dos = {} /\ undos = {} THEN "none"
        ELSE IF undos = {} THEN "do"
        ELSE IF dos = {} THEN "undo"
        ELSE IF \E u \in undos : \A d \in dos : d < u THEN "undo" ELSE "do"

\* the marker of a line on which -- @UNDO outweighs -- @DO
MarkerOfLine(line) ==
    IF Contains(line, UndoMarker) THEN "undo"
    ELSE IF Contains(line, DoMarker) THEN "do"
    ELSE "none"

\* the marker of a line under a rule: "last" or "undo wins"
MarkerBy(rule, line) ==
    IF rule = "last" THEN LastMarkerOnLine(line) ELSE MarkerOfLine(line)

\* the mode of line i of lines: that of the last line with a marker up to
\* and including line i, do when there is none
RECURSIVE ModeAt(_, _, _)
ModeAt(lines, i, rule) ==
    IF i = 0 THEN "do"
    ELSE IF MarkerBy(rule, lines[i]) # "none" THEN MarkerBy(rule, lines[i])
    ELSE ModeAt(lines, i - 1, rule)

\* the lines of a mode, in the order of the file
RECURSIVE LinesOf(_, _, _, _)
LinesOf(lines, k, mode, rule) ==
    IF k = 0 THEN <<>>
    ELSE IF ModeAt(lines, k, rule) = mode
         THEN Append(LinesOf(lines, k - 1, mode, rule), lines[k])
         ELSE LinesOf(lines, k - 1, mode, rule)

\* C15 as stated: every line goes to exactly one of the two scripts, in the
\* order of the file: to the undo-script if the most recent marker seen up
\* to and including that line is -- @UNDO, otherwise to the do-script.
C15_LastMarkerDecides ==
    fileBody # <<>> =>
        /\ bodyResult.DoScript = LinesOf(fileBody, Len(fileBody), "do", "last")
        /\ bodyResult.UndoScript = LinesOf(fileBody, Len(fileBody), "undo", "last")

\* C15, amended: every line goes to exactly one of the two scripts, in the
\* order of the file: to the undo-script if the most recent line with a
\* marker, up to and including that line, holds -- @UNDO (with or without
\* -- @DO, in either order), otherwise to the do-script; lines before the
\* first marker go to the do-script, and a file with CREATE in its @DO
\* section and DROP in its @UNDO section gives a doScript with the CREATE
\* and not the DROP and an undoScript with the DROP and not the CREATE.
C15_UndoMarkerWins ==
    fileBody # <<>> =>
        /\ bodyResult.DoScript = LinesOf(fileBody, Len(fileBody), "do", "undo wins")
        /\ bodyResult.UndoScript = LinesOf(fileBody, Len(fileBody), "undo", "undo wins")
        /\ Len(bodyResult.DoScript) + Len(bodyResult.UndoScript) = Len(fileBody)
        /\ fileBody = <<<<"--", "@DO", "sql", "script", "--">>, <<"CREATE", "TABLE", "t">>,
                        <<"--", "@UNDO", "sql", "script", "--">>, <<"DROP", "TABLE", "t">>>> =>
               /\ bodyResult.DoScript = SubSeq(fileBody, 1, 2)
               /\ bodyResult.UndoScript = SubSeq(fileBody, 3, 4)

\* a file whose third line holds -- @UNDO and then -- @DO: the line and the
\* DROP after it are in the undo-script
C15_Witness ==
    /\ fileBody = <<<<"--", "@DO", "sql", "script", "--">>, <<"CREATE", "TABLE", "t">>,
                    <<"--", "@UNDO", "--", "@DO">>, <<"DROP", "TABLE", "t">>>>
    /\ bodyResult.UndoScript = SubSeq(fileBody, 3, 4)
    /\ bodyResult.DoScript = SubSeq(fileBody, 1, 2)

\* C16: during down the ledger entry of a migration is deleted only after
\* its undo-script has executed; a failing undo-script aborts the run with
\* the entry of that migration still present and is the run's last statement.
C16_DeleteAfterUndo ==
    \A r \in Single : cmd[r] = "down" =>
        /\ \A ts \in RevertedByRun(r) : stmt("undo", ts, TRUE) \in Range(executed[r])
        /\ pc[r] = "delete" => ledger[Cur(r).Timestamp] = 1
        /\ \A i \in DOMAIN executed[r] :
               ~executed[r][i].ok =>
                   /\ i = Len(executed[r])
                   /\ pc[r] = "aborted"
                   /\ ledger[executed[r][i].ts] = 1
                   /\ Cardinality(RevertedByRun(r)) = i - 1

\* C16 witness: a down run was aborted by the failing undo-script of its
\* second migration; the first is reverted, the second and a third are not
C16_Witness ==
    /\ cmd[1] = "down" /\ pc[1] = "aborted"
    /\ Len(executed[1]) = 2
    /\ executed[1][1].ok /\ ~executed[1][2].ok
    /\ RevertedByRun(1) = {executed[1][1].ts}
    /\ Cardinality(AppliedAtLoad(1)) = 3

\* C17 (as claimed): with one runner the applied migrations are always a
\* prefix of the ascending timestamp order: no pending migration has a lower
\* timestamp than an applied one, also inside a run.
C17_AppliedIsPrefix ==
    \A ts, u \in ScriptTs :
        (u < ts /\ IsMigrationApplied(ledger, ts)) => IsMigrationApplied(ledger, u)
====
